---- MODULE Spec2Model ----
(***************************************************************************)
(* Model of pages/assets/js/geogebra-loader.js (v1.1): loadGeoGebra, the   *)
(* script-injection / two-phase polling protocol around one Promise per    *)
(* call.  Every event-loop task (a call of loadGeoGebra, the script's      *)
(* onload / onerror, one setInterval callback) is one atomic action; the   *)
(* third-party library (window.GGBApplet, window[containerId+'_applet'])   *)
(* is the environment.                                                     *)
(***************************************************************************)
EXTENDS Integers, Sequences, FiniteSets, TLC

(* ---- bounds ---- *)
MaxCalls == 2
MaxTicks == 4

Calls == 1..MaxCalls

(* ---- the page and the inputs ---- *)
Mounts == {"app"}
ContainerIds == Mounts \cup {"ghost"}

GgbName == <<"d", ".", "g", "g", "b">>
GgbTxtName == <<"d", ".", "g", "g", "b", ".", "t", "x", "t">>
EmptyName == << >>
FileNames == {GgbName, GgbTxtName, EmptyName}

Msgs == {"boom", "no webgl"}

\* window.location: hostname and protocol
Hostnames == {"localhost", "127.0.0.1", "example.org", ""}
Protocols == {"http:", "https:", "file:"}
Locations == [hostname : Hostnames, protocol : Protocols]
Production == [hostname |-> "example.org", protocol |-> "https:"]

\* embedGeoGebra's inputs
MaterialIds == {"", "m1"}
Sizes == {<<800, 500>>, <<400, 300>>}

NoArgs == [containerId |-> "", ggbFileName |-> EmptyName, is3D |-> FALSE]
Pending == [state |-> "pending", kind |-> "", msg |-> "", inst |-> 0]
Prior == [kind |-> "prior", by |-> 0]
NoParams == [appName |-> "", filename |-> << >>]

VARIABLES
  args,          \* per call: the arguments of loadGeoGebra
  pc,            \* per call: position of the call in the protocol
  promise,       \* per call: the Promise returned by loadGeoGebra
  resolveCalls,  \* per call: number of invocations of resolve
  rejectCalls,   \* per call: number of invocations of reject
  scriptEvt,     \* per call: "none" | "pending" | "load" | "error"
  checkInterval, \* per call: Phase A timer, "none" | "active" | "cleared"
  onLoaded,      \* per call: Phase B timer, "none" | "active" | "cleared"
  libSeen,       \* per call: a Phase A callback has found window.GGBApplet
  constructed,   \* per call: new GGBApplet(...).inject(containerId) returned
  thrown,        \* per call: message of the error the construction threw
  head,          \* script elements of the document, in document order
  mount,         \* contents of each mount point
  GGBApplet,     \* window.GGBApplet is defined
  registry,      \* window[containerId + '_applet'], 0 when undefined
  location,      \* window.location
  params,        \* per call: appName and filename of the params object
  fresh,         \* per call: the readiness key was written while onLoaded ran
  watch,         \* the call whose timer callbacks are counted
  ticks,         \* timer callbacks of the watched call so far (saturating)
  aMiss,         \* its Phase A callbacks that found no GGBApplet
  bMiss,         \* its Phase B callbacks that found no instance
  resolvedTick   \* value of ticks when it invoked resolve

vars == <<args, pc, promise, resolveCalls, rejectCalls, scriptEvt,
          checkInterval, onLoaded, libSeen, constructed, thrown, head, mount,
          GGBApplet, registry, location, params, fresh, watch, ticks, aMiss,
          bMiss, resolvedTick>>

counters == <<ticks, aMiss, bMiss, resolvedTick>>

(* ---- pure helpers ---- *)
\* the callback count is exact below MaxTicks and means "MaxTicks or more" at it
Bump(n) == IF n < MaxTicks THEN n + 1 ELSE MaxTicks

\* a failed check is counted while the callback count is still exact
Miss(n, t) == IF t < MaxTicks THEN n + 1 ELSE n

Bump2(n) == IF n < 2 THEN n + 1 ELSE 2

\* String.prototype.endsWith
EndsWith(s, suf) ==
  /\ Len(s) >= Len(suf)
  /\ SubSeq(s, Len(s) - Len(suf) + 1, Len(s)) = suf

GgbExt == <<".", "g", "g", "b">>

ValidFileNameNonEmpty(f) == Len(f) > 0

\* !( !ggbFileName || !ggbFileName.endsWith('.ggb') )
ValidFileName(f) == Len(f) > 0 /\ EndsWith(f, GgbExt)

ContainerExistsAlways(cid) == TRUE

\* document.getElementById(containerId) is not null
ContainerExists(cid) == cid \in Mounts

ScriptId(is3D) == IF is3D THEN "geogebra-3d-script" ELSE "geogebra-script"

ScriptIds == {ScriptId(b) : b \in BOOLEAN}

\* index of the first element with that id, 0 when there is none
FirstWithId(h, id) ==
  IF \E i \in 1..Len(h) : h[i].id = id
  THEN CHOOSE i \in 1..Len(h) :
         h[i].id = id /\ \A j \in 1..(i - 1) : h[j].id # id
  ELSE 0

RemoveAt(h, i) == SubSeq(h, 1, i - 1) \o SubSeq(h, i + 1, Len(h))

KeepExisting(h, id) == h

\* the first script element is removed whatever its id
RemoveFirstScript(h, id) == IF Len(h) = 0 THEN h ELSE Tail(h)

\* existingScript = getElementById(scriptId); if (existingScript) remove()
RemoveExisting(h, id) ==
  IF FirstWithId(h, id) = 0 THEN h ELSE RemoveAt(h, FirstWithId(h, id))

CountId(h, id) == Cardinality({i \in 1..Len(h) : h[i].id = id})

\* the Promise settles on the first of resolve / reject; later ones are ignored
Settle(c, st, k, m, i) ==
  IF promise[c].state = "pending"
  THEN [promise EXCEPT ![c] = [state |-> st, kind |-> k, msg |-> m, inst |-> i]]
  ELSE promise

\* reject(...) of call c
Reject(c, k, m) ==
  /\ promise' = Settle(c, "rejected", k, m, 0)
  /\ rejectCalls' = [rejectCalls EXCEPT ![c] = Bump2(@)]

\* resolve(appletInstance) of call c
Resolve(c, i) ==
  /\ promise' = Settle(c, "fulfilled", "", "", i)
  /\ resolveCalls' = [resolveCalls EXCEPT ![c] = Bump2(@)]
  /\ resolvedTick' = IF c = watch THEN ticks' ELSE resolvedTick

\* one more timer callback of call c has run
Tick(c) == ticks' = IF c = watch THEN Bump(ticks) ELSE ticks

CatchReasonNoMessage(m) == "unknown"

\* new Error(`... ${error.message}`)
CatchReason(m) == m

ReadinessKey(c) == args[c].containerId

\* isLiveServer
IsLiveServer(loc) == loc.hostname = "localhost" \/ loc.hostname = "127.0.0.1"

\* isFileProtocol
IsFileProtocol(loc) == loc.protocol = "file:"

\* v1.0: no file-protocol branch
BasePathV10(loc) ==
  IF IsLiveServer(loc)
  THEN <<"http://", loc.hostname, ":5500/assets/ggb/">>
  ELSE <<"/assets/ggb/">>

\* basePath, a string as the sequence of its pieces
BasePath(loc) ==
  IF IsLiveServer(loc)
  THEN <<"http://", loc.hostname, ":5500/assets/ggb/">>
  ELSE IF IsFileProtocol(loc) THEN <<"./assets/ggb/">> ELSE <<"/assets/ggb/">>

\* the params object: appName and filename (the other entries are literals)
Params(f, is3D) ==
  [appName |-> IF is3D THEN "3d" ELSE "classic", filename |-> BasePath(location) \o f]

\* the iframe markup embedGeoGebra writes
Iframe(materialId, size, showBorder) ==
  [kind |-> "iframe", by |-> 0, material |-> materialId,
   width |-> size[1], height |-> size[2], border |-> showBorder]

InitPage ==
  /\ args = [c \in Calls |-> NoArgs]
  /\ params = [c \in Calls |-> NoParams]
  /\ fresh = [c \in Calls |-> FALSE]
  /\ pc = [c \in Calls |-> "idle"]
  /\ promise = [c \in Calls |-> Pending]
  /\ resolveCalls = [c \in Calls |-> 0]
  /\ rejectCalls = [c \in Calls |-> 0]
  /\ scriptEvt = [c \in Calls |-> "none"]
  /\ checkInterval = [c \in Calls |-> "none"]
  /\ onLoaded = [c \in Calls |-> "none"]
  /\ libSeen = [c \in Calls |-> FALSE]
  /\ constructed = [c \in Calls |-> FALSE]
  /\ thrown = [c \in Calls |-> ""]
  /\ head = << >>
  /\ mount = [m \in Mounts |-> Prior]
  /\ GGBApplet = FALSE
  /\ registry = [m \in ContainerIds |-> 0]
  /\ watch \in Calls
  /\ ticks = 0
  /\ aMiss = 0
  /\ bMiss = 0
  /\ resolvedTick = 0

Init == location = Production /\ InitPage

\* the same page under every window.location
PathInit == location \in Locations /\ InitPage

\* the timers of the call whose element a new call removes are cleared too
CancelSuperseded(t, c, is3D) ==
  [d \in Calls |->
     IF d # c /\ t[d] = "active" /\ pc[d] # "idle" /\ args[d].is3D = is3D
     THEN "cleared" ELSE t[d]]

LoadGeoGebraCancels(c, cid, f, is3D) ==
  /\ pc[c] = "idle"
  /\ \A d \in Calls : d < c => pc[d] # "idle"
  /\ args' = [args EXCEPT ![c] = [containerId |-> cid, ggbFileName |-> f, is3D |-> is3D]]
  /\ IF ~ContainerExists(cid)
     THEN /\ Reject(c, "MountNotFound", "")
          /\ pc' = [pc EXCEPT ![c] = "Rejected"]
          /\ UNCHANGED <<mount, head, scriptEvt, params, checkInterval, onLoaded>>
     ELSE IF ~ValidFileName(f)
     THEN /\ Reject(c, "InvalidResourceName", "")
          /\ pc' = [pc EXCEPT ![c] = "Rejected"]
          /\ UNCHANGED <<mount, head, scriptEvt, params, checkInterval, onLoaded>>
     ELSE /\ mount' = [mount EXCEPT ![cid] = [kind |-> "loading", by |-> c]]
          /\ params' = [params EXCEPT ![c] = Params(f, is3D)]
          /\ head' = Append(RemoveExisting(head, ScriptId(is3D)),
                            [id |-> ScriptId(is3D), owner |-> c])
          /\ checkInterval' = CancelSuperseded(checkInterval, c, is3D)
          /\ onLoaded' = CancelSuperseded(onLoaded, c, is3D)
          /\ scriptEvt' = [scriptEvt EXCEPT ![c] = "pending"]
          /\ pc' = [pc EXCEPT ![c] = "AwaitingResource"]
          /\ UNCHANGED <<promise, rejectCalls>>
  /\ UNCHANGED <<resolveCalls, libSeen, constructed,
                 thrown, GGBApplet, registry, location, fresh, watch, counters>>

\* the file name is checked before the mount point
LoadGeoGebraNameFirst(c, cid, f, is3D) ==
  /\ pc[c] = "idle"
  /\ \A d \in Calls : d < c => pc[d] # "idle"
  /\ args' = [args EXCEPT ![c] = [containerId |-> cid, ggbFileName |-> f, is3D |-> is3D]]
  /\ IF ~ValidFileName(f)
     THEN /\ Reject(c, "InvalidResourceName", "")
          /\ pc' = [pc EXCEPT ![c] = "Rejected"]
          /\ UNCHANGED <<mount, head, scriptEvt, params>>
     ELSE IF ~ContainerExists(cid)
     THEN /\ Reject(c, "MountNotFound", "")
          /\ pc' = [pc EXCEPT ![c] = "Rejected"]
          /\ UNCHANGED <<mount, head, scriptEvt, params>>
     ELSE /\ mount' = [mount EXCEPT ![cid] = [kind |-> "loading", by |-> c]]
          /\ params' = [params EXCEPT ![c] = Params(f, is3D)]
          /\ head' = Append(RemoveExisting(head, ScriptId(is3D)),
                            [id |-> ScriptId(is3D), owner |-> c])
          /\ scriptEvt' = [scriptEvt EXCEPT ![c] = "pending"]
          /\ pc' = [pc EXCEPT ![c] = "AwaitingResource"]
          /\ UNCHANGED <<promise, rejectCalls>>
  /\ UNCHANGED <<resolveCalls, checkInterval, onLoaded, libSeen, constructed,
                 thrown, GGBApplet, registry, location, fresh, watch, counters>>

\* the placeholder and the teardown come before the file name check
LoadGeoGebraLateValidation(c, cid, f, is3D) ==
  /\ pc[c] = "idle"
  /\ \A d \in Calls : d < c => pc[d] # "idle"
  /\ args' = [args EXCEPT ![c] = [containerId |-> cid, ggbFileName |-> f, is3D |-> is3D]]
  /\ IF ~ContainerExists(cid)
     THEN /\ Reject(c, "MountNotFound", "")
          /\ pc' = [pc EXCEPT ![c] = "Rejected"]
          /\ UNCHANGED <<mount, head, scriptEvt, params>>
     ELSE IF ~ValidFileName(f)
     THEN /\ mount' = [mount EXCEPT ![cid] = [kind |-> "loading", by |-> c]]
          /\ head' = RemoveExisting(head, ScriptId(is3D))
          /\ Reject(c, "InvalidResourceName", "")
          /\ pc' = [pc EXCEPT ![c] = "Rejected"]
          /\ UNCHANGED <<scriptEvt, params>>
     ELSE /\ mount' = [mount EXCEPT ![cid] = [kind |-> "loading", by |-> c]]
          /\ params' = [params EXCEPT ![c] = Params(f, is3D)]
          /\ head' = Append(RemoveExisting(head, ScriptId(is3D)),
                            [id |-> ScriptId(is3D), owner |-> c])
          /\ scriptEvt' = [scriptEvt EXCEPT ![c] = "pending"]
          /\ pc' = [pc EXCEPT ![c] = "AwaitingResource"]
          /\ UNCHANGED <<promise, rejectCalls>>
  /\ UNCHANGED <<resolveCalls, checkInterval, onLoaded, libSeen, constructed,
                 thrown, GGBApplet, registry, location, fresh, watch, counters>>

(* ---- loadGeoGebra(containerId, ggbFileName, is3D): the Promise executor ---- *)
LoadGeoGebra(c, cid, f, is3D) ==
  /\ pc[c] = "idle"
  /\ \A d \in Calls : d < c => pc[d] # "idle"
  /\ args' = [args EXCEPT ![c] = [containerId |-> cid, ggbFileName |-> f, is3D |-> is3D]]
  /\ IF ~ContainerExists(cid)
     THEN /\ Reject(c, "MountNotFound", "")
          /\ pc' = [pc EXCEPT ![c] = "Rejected"]
          /\ UNCHANGED <<mount, head, scriptEvt, params>>
     ELSE IF ~ValidFileName(f)
     THEN /\ Reject(c, "InvalidResourceName", "")
          /\ pc' = [pc EXCEPT ![c] = "Rejected"]
          /\ UNCHANGED <<mount, head, scriptEvt, params>>
     ELSE /\ mount' = [mount EXCEPT ![cid] = [kind |-> "loading", by |-> c]]
          /\ params' = [params EXCEPT ![c] = Params(f, is3D)]
          /\ head' = Append(RemoveExisting(head, ScriptId(is3D)),
                            [id |-> ScriptId(is3D), owner |-> c])
          /\ scriptEvt' = [scriptEvt EXCEPT ![c] = "pending"]
          /\ pc' = [pc EXCEPT ![c] = "AwaitingResource"]
          /\ UNCHANGED <<promise, rejectCalls>>
  /\ UNCHANGED <<resolveCalls, checkInterval, onLoaded, libSeen, constructed,
                 thrown, GGBApplet, registry, location, fresh, watch, counters>>

ScriptOnloadStartsPhaseB(c) ==
  /\ scriptEvt[c] = "pending"
  /\ scriptEvt' = [scriptEvt EXCEPT ![c] = "load"]
  /\ checkInterval' = [checkInterval EXCEPT ![c] = "active"]
  /\ onLoaded' = [onLoaded EXCEPT ![c] = "active"]
  /\ pc' = [pc EXCEPT ![c] = "AwaitingLibraryGlobal"]
  /\ UNCHANGED <<args, params, location, fresh,
                 promise, resolveCalls, rejectCalls, libSeen,
                 constructed, thrown, head, mount, GGBApplet, registry, watch,
                 counters>>

(* ---- script.onload: checkInterval = setInterval(..., 100) ---- *)
ScriptOnload(c) ==
  /\ scriptEvt[c] = "pending"
  /\ scriptEvt' = [scriptEvt EXCEPT ![c] = "load"]
  /\ checkInterval' = [checkInterval EXCEPT ![c] = "active"]
  /\ pc' = [pc EXCEPT ![c] = "AwaitingLibraryGlobal"]
  /\ UNCHANGED <<args, params, location, fresh,
                 promise, resolveCalls, rejectCalls, onLoaded, libSeen,
                 constructed, thrown, head, mount, GGBApplet, registry, watch,
                 counters>>

ScriptOnerrorPolls(c) ==
  /\ scriptEvt[c] = "pending"
  /\ scriptEvt' = [scriptEvt EXCEPT ![c] = "error"]
  /\ mount' = [mount EXCEPT ![args[c].containerId] = [kind |-> "panel", by |-> c]]
  /\ Reject(c, "ResourceLoadFailed", "")
  /\ checkInterval' = [checkInterval EXCEPT ![c] = "active"]
  /\ pc' = [pc EXCEPT ![c] = "Rejected"]
  /\ UNCHANGED <<args, params, location, fresh,
                 resolveCalls, onLoaded, libSeen, constructed,
                 thrown, head, GGBApplet, registry, watch, counters>>

(* ---- script.onerror ---- *)
ScriptOnerror(c) ==
  /\ scriptEvt[c] = "pending"
  /\ scriptEvt' = [scriptEvt EXCEPT ![c] = "error"]
  /\ mount' = [mount EXCEPT ![args[c].containerId] = [kind |-> "panel", by |-> c]]
  /\ Reject(c, "ResourceLoadFailed", "")
  /\ pc' = [pc EXCEPT ![c] = "Rejected"]
  /\ UNCHANGED <<args, params, location, fresh,
                 resolveCalls, checkInterval, onLoaded, libSeen, constructed,
                 thrown, head, GGBApplet, registry, watch, counters>>

(* ---- the checkInterval callback (Phase A, every 100 ms) ---- *)
ConstructOkEager(c) ==
  /\ constructed' = [constructed EXCEPT ![c] = TRUE]
  /\ mount' = [mount EXCEPT ![args[c].containerId] = [kind |-> "applet", by |-> c]]
  /\ IF registry[ReadinessKey(c)] # 0
     THEN /\ Resolve(c, registry[ReadinessKey(c)])
          /\ pc' = [pc EXCEPT ![c] = "Resolved"]
          /\ UNCHANGED onLoaded
     ELSE /\ onLoaded' = [onLoaded EXCEPT ![c] = "active"]
          /\ pc' = [pc EXCEPT ![c] = "AwaitingInstance"]
          /\ UNCHANGED <<promise, resolveCalls, resolvedTick>>
  /\ UNCHANGED <<rejectCalls, thrown>>

\* new GGBApplet(params, true) and applet.inject(containerId) return:
\* onLoaded = setInterval(..., 200)
ConstructOk(c) ==
  /\ constructed' = [constructed EXCEPT ![c] = TRUE]
  /\ mount' = [mount EXCEPT ![args[c].containerId] = [kind |-> "applet", by |-> c]]
  /\ onLoaded' = [onLoaded EXCEPT ![c] = "active"]
  /\ pc' = [pc EXCEPT ![c] = "AwaitingInstance"]
  /\ UNCHANGED <<promise, resolveCalls, rejectCalls, thrown, resolvedTick>>

\* one of them throws an error with message m: catch (error)
ConstructThrows(c, m) ==
  /\ thrown' = [thrown EXCEPT ![c] = m]
  /\ Reject(c, "InitializationFailed", CatchReason(m))
  /\ pc' = [pc EXCEPT ![c] = "Rejected"]
  /\ UNCHANGED <<constructed, mount, onLoaded, resolveCalls, resolvedTick>>

PhaseAMissGivesUp(c) ==
  /\ ~GGBApplet
  /\ aMiss' = IF c = watch THEN Miss(aMiss, ticks) ELSE aMiss
  /\ checkInterval' = [checkInterval EXCEPT ![c] = "cleared"]
  /\ Reject(c, "Timeout", "")
  /\ pc' = [pc EXCEPT ![c] = "Rejected"]
  /\ UNCHANGED <<libSeen, constructed, thrown, mount, onLoaded,
                 resolveCalls, resolvedTick>>

\* if (window.GGBApplet) is false: nothing happens, the timer stays
PhaseAMiss(c) ==
  /\ ~GGBApplet
  /\ aMiss' = IF c = watch THEN Miss(aMiss, ticks) ELSE aMiss
  /\ UNCHANGED <<checkInterval, libSeen, constructed, thrown, mount, onLoaded,
                 pc, promise, resolveCalls, rejectCalls, resolvedTick>>

\* clearInterval(checkInterval) moved into the try, after the construction
PhaseAHitClearsLate(c) ==
  /\ GGBApplet
  /\ libSeen' = [libSeen EXCEPT ![c] = TRUE]
  /\ \/ /\ ConstructOk(c)
        /\ checkInterval' = [checkInterval EXCEPT ![c] = "cleared"]
     \/ /\ \E m \in Msgs : ConstructThrows(c, m)
        /\ UNCHANGED checkInterval
  /\ UNCHANGED aMiss

\* clearInterval(checkInterval) left out
PhaseAHitNoClear(c) ==
  /\ GGBApplet
  /\ libSeen' = [libSeen EXCEPT ![c] = TRUE]
  /\ UNCHANGED checkInterval
  /\ \/ ConstructOk(c)
     \/ \E m \in Msgs : ConstructThrows(c, m)
  /\ UNCHANGED aMiss

\* if (window.GGBApplet) is true: clearInterval(checkInterval); try { ... }
PhaseAHit(c) ==
  /\ GGBApplet
  /\ libSeen' = [libSeen EXCEPT ![c] = TRUE]
  /\ checkInterval' = [checkInterval EXCEPT ![c] = "cleared"]
  /\ \/ ConstructOk(c)
     \/ \E m \in Msgs : ConstructThrows(c, m)
  /\ UNCHANGED aMiss

PhaseATick(c) ==
  /\ checkInterval[c] = "active"
  /\ Tick(c)
  /\ \/ PhaseAHit(c)
     \/ PhaseAMiss(c)
  /\ UNCHANGED <<args, params, location, fresh,
                 scriptEvt, head, GGBApplet, registry, watch, bMiss>>

(* ---- the onLoaded callback (Phase B, every 200 ms) ---- *)
PhaseBHitNoClear(c) ==
  /\ registry[ReadinessKey(c)] # 0
  /\ Resolve(c, registry[ReadinessKey(c)])
  /\ pc' = [pc EXCEPT ![c] = "Resolved"]
  /\ UNCHANGED <<onLoaded, bMiss>>

\* if (appletInstance): clearInterval(onLoaded); resolve(appletInstance)
PhaseBHit(c) ==
  /\ registry[ReadinessKey(c)] # 0
  /\ onLoaded' = [onLoaded EXCEPT ![c] = "cleared"]
  /\ Resolve(c, registry[ReadinessKey(c)])
  /\ pc' = [pc EXCEPT ![c] = "Resolved"]
  /\ UNCHANGED bMiss

\* appletInstance is undefined: nothing happens, the timer stays
PhaseBMiss(c) ==
  /\ registry[ReadinessKey(c)] = 0
  /\ bMiss' = IF c = watch THEN Miss(bMiss, ticks) ELSE bMiss
  /\ UNCHANGED <<onLoaded, promise, resolveCalls, resolvedTick, pc>>

PhaseBTick(c) ==
  /\ onLoaded[c] = "active"
  /\ Tick(c)
  /\ \/ PhaseBHit(c)
     \/ PhaseBMiss(c)
  /\ UNCHANGED <<args, params, location, fresh,
                 rejectCalls, scriptEvt, checkInterval, libSeen,
                 constructed, thrown, head, mount, GGBApplet, registry, watch,
                 aMiss>>

(* ---- the environment: the third-party library ---- *)
\* some script defines window.GGBApplet
LibraryAppears ==
  /\ ~GGBApplet
  /\ GGBApplet' = TRUE
  /\ UNCHANGED <<args, params, location, fresh,
                 pc, promise, resolveCalls, rejectCalls, scriptEvt,
                 checkInterval, onLoaded, libSeen, constructed, thrown, head,
                 mount, registry, watch, counters>>

\* the applet injected by call c publishes window[containerId + '_applet']
InstanceAppears(c) ==
  /\ constructed[c]
  /\ registry[ReadinessKey(c)] # c
  /\ registry' = [registry EXCEPT ![ReadinessKey(c)] = c]
  /\ fresh' = [d \in Calls |->
                 fresh[d] \/ (onLoaded[d] = "active" /\ ReadinessKey(d) = ReadinessKey(c))]
  /\ UNCHANGED <<args, params, location, pc, promise, resolveCalls, rejectCalls,
                 scriptEvt, checkInterval, onLoaded, libSeen, constructed,
                 thrown, head, mount, GGBApplet, watch, counters>>

\* the materialId check left out
EmbedNoIdCheck(cid, materialId, size, showBorder) ==
  /\ IF ~ContainerExists(cid)
     THEN UNCHANGED mount
     ELSE mount' = [mount EXCEPT ![cid] = Iframe(materialId, size, showBorder)]
  /\ UNCHANGED <<args, params, location, fresh, pc, promise, resolveCalls,
                 rejectCalls, scriptEvt, checkInterval, onLoaded, libSeen,
                 constructed, thrown, head, GGBApplet, registry, watch,
                 counters>>

(* ---- embedGeoGebra(containerId, materialId, width, height, showBorder) ---- *)
Embed(cid, materialId, size, showBorder) ==
  /\ IF ~ContainerExists(cid) \/ materialId = ""
     THEN UNCHANGED mount
     ELSE mount' = [mount EXCEPT ![cid] = Iframe(materialId, size, showBorder)]
  /\ UNCHANGED <<args, params, location, fresh, pc, promise, resolveCalls,
                 rejectCalls, scriptEvt, checkInterval, onLoaded, libSeen,
                 constructed, thrown, head, GGBApplet, registry, watch,
                 counters>>

Next ==
  \/ \E c \in Calls, cid \in ContainerIds, f \in FileNames, is3D \in BOOLEAN :
       LoadGeoGebra(c, cid, f, is3D)
  \/ \E c \in Calls : ScriptOnload(c)
  \/ \E c \in Calls : ScriptOnerror(c)
  \/ \E c \in Calls : PhaseATick(c)
  \/ \E c \in Calls : PhaseBTick(c)
  \/ LibraryAppears
  \/ \E c \in Calls : InstanceAppears(c)

Spec == Init /\ [][Next]_vars

\* one call of loadGeoGebra and everything that follows from it
SoloCalls == {c \in Calls : \A d \in Calls : c <= d}

SoloNext ==
  \/ \E c \in SoloCalls, cid \in ContainerIds, f \in FileNames, is3D \in BOOLEAN :
       LoadGeoGebra(c, cid, f, is3D)
  \/ \E c \in SoloCalls : ScriptOnload(c)
  \/ \E c \in SoloCalls : ScriptOnerror(c)
  \/ \E c \in SoloCalls : PhaseATick(c)
  \/ \E c \in SoloCalls : PhaseBTick(c)
  \/ LibraryAppears
  \/ \E c \in SoloCalls : InstanceAppears(c)

\* the path policy: one call under each window.location
PathSpec == PathInit /\ [][SoloNext]_vars

\* embedGeoGebra alongside one call of loadGeoGebra; embedGeoGebra writes only
\* the mount point's contents, which no step of loadGeoGebra reads
EmbedNext ==
  \/ SoloNext
  \/ \E cid \in ContainerIds, materialId \in MaterialIds, size \in Sizes,
        showBorder \in BOOLEAN : Embed(cid, materialId, size, showBorder)

EmbedSpec == Init /\ [][EmbedNext]_vars

\* The browser fires the pending load or error event of an injected script and
\* keeps running every active interval timer; nothing obliges the library to
\* define its globals.  (A callback that finds its global absent changes no
\* program state, so endless failed polling shows as stuttering.)
Fairness ==
  /\ \A c \in Calls : WF_vars(ScriptOnload(c) \/ ScriptOnerror(c))
  /\ \A c \in Calls : WF_vars(PhaseATick(c))
  /\ \A c \in Calls : WF_vars(PhaseBTick(c))

FairSpec == Spec /\ Fairness

TypeOK ==
  /\ pc \in [Calls -> {"idle", "AwaitingResource", "AwaitingLibraryGlobal",
                       "AwaitingInstance", "Resolved", "Rejected"}]
  /\ checkInterval \in [Calls -> {"none", "active", "cleared"}]
  /\ onLoaded \in [Calls -> {"none", "active", "cleared"}]
  /\ scriptEvt \in [Calls -> {"none", "pending", "load", "error"}]
  /\ \A c \in Calls : promise[c].state \in {"pending", "fulfilled", "rejected"}
  /\ ticks \in 0..MaxTicks

(* ======================= the claims ======================= *)
Called(c) == pc[c] # "idle"
Settled(c) == promise[c].state # "pending"
Invocations(c) == resolveCalls[c] + rejectCalls[c]
TimerActive(c) == checkInterval[c] = "active" \/ onLoaded[c] = "active"
NoTimerEver(c) == checkInterval[c] = "none" /\ onLoaded[c] = "none"
OwnsElement(c) == \E i \in 1..Len(head) : head[i].owner = c

\* C1 as stated: every call of loadGeoGebra eventually has exactly one of
\* resolve / reject invoked, exactly once (the Future of every call settles).
C1_ExactlyOneAlways ==
  \A c \in Calls : Called(c) ~> (Invocations(c) = 1 /\ Settled(c))

\* C1 amended: per call at most one of resolve / reject is invoked and at most
\* once; the Future is settled exactly when one has been invoked, fulfilled
\* when it was resolve and rejected when it was reject; a call that is not yet
\* settled still has its script event outstanding or a polling timer active,
\* and a settled call has neither (settling itself is not guaranteed).
C1_AtMostOnce ==
  \A c \in Calls :
    /\ Invocations(c) <= 1
    /\ Settled(c) <=> Invocations(c) = 1
    /\ promise[c].state = "fulfilled" <=> resolveCalls[c] = 1
    /\ promise[c].state = "rejected" <=> rejectCalls[c] = 1
    /\ (Called(c) /\ ~Settled(c)) => (scriptEvt[c] = "pending" \/ TimerActive(c))
    /\ Settled(c) => (scriptEvt[c] # "pending" /\ ~TimerActive(c))

C1_Witness ==
  \E c, d \in Calls :
    /\ promise[c].state = "fulfilled" /\ Invocations(c) = 1
    /\ promise[d].state = "rejected" /\ Invocations(d) = 1

\* C2: within one call the Phase B timer exists only after a Phase A callback
\* has found window.GGBApplet, and the Phase A timer exists only after the
\* script's load callback has fired; no timer callback is counted before that.
C2_PhaseOrder ==
  \A c \in Calls :
    /\ onLoaded[c] # "none" => libSeen[c] /\ checkInterval[c] = "cleared"
    /\ libSeen[c] => checkInterval[c] # "none"
    /\ checkInterval[c] # "none" => scriptEvt[c] = "load"
    /\ (c = watch /\ ticks > 0) => scriptEvt[c] = "load"
    /\ (c = watch /\ bMiss > 0) => libSeen[c]

C2_Witness ==
  \E c \in Calls :
    /\ c = watch /\ onLoaded[c] = "active" /\ libSeen[c]
    /\ scriptEvt[c] = "load" /\ aMiss > 0 /\ bMiss > 0

\* C3: the document never holds two script elements with the same id, and a
\* key for which a call passed validation has exactly one element, owned by
\* the latest such call.
C3_OneScriptPerKey ==
  /\ \A id \in ScriptIds : CountId(head, id) <= 1
  /\ \A c \in Calls :
       scriptEvt[c] # "none" => CountId(head, ScriptId(args[c].is3D)) = 1
  /\ \A c \in Calls :
       (/\ scriptEvt[c] # "none"
        /\ \A d \in Calls : (d > c /\ scriptEvt[d] # "none")
                               => args[d].is3D # args[c].is3D)
       => \E i \in 1..Len(head) :
            head[i] = [id |-> ScriptId(args[c].is3D), owner |-> c]

C3_Witness ==
  \E c, d \in Calls :
    /\ c < d /\ scriptEvt[c] # "none" /\ scriptEvt[d] # "none"
    /\ args[c].is3D = args[d].is3D
    /\ CountId(head, ScriptId(args[d].is3D)) = 1
    /\ ~OwnsElement(c) /\ OwnsElement(d)

\* C4: resolve is invoked only by a Phase B callback that finds the instance
\* under the readiness key, with that instance; when Phase A found the library
\* on its N-th callback (N-1 misses) and Phase B found the instance on its
\* M-th (M-1 misses), that is callback number N+M of the call, at least 2.
C4_ResolvesOnTickNPlusM ==
  /\ [](\A c \in Calls :
          (c = watch /\ resolveCalls[c] > 0 /\ resolvedTick < MaxTicks)
          => /\ resolvedTick = (aMiss + 1) + (bMiss + 1)
             /\ resolvedTick = ticks
             /\ promise[c].state = "fulfilled")
  /\ [][\A c \in Calls :
          resolveCalls'[c] # resolveCalls[c]
          => /\ onLoaded[c] = "active"
             /\ libSeen[c]
             /\ registry[ReadinessKey(c)] # 0
             /\ promise'[c].state = "fulfilled"
             /\ promise'[c].inst = registry[ReadinessKey(c)]]_vars

C4_Witness ==
  /\ resolveCalls[watch] = 1
  /\ aMiss + bMiss = 1
  /\ resolvedTick = 3
  /\ promise[watch].inst # 0

\* C5: after the script's error callback the Future is rejected with
\* ResourceLoadFailed and the call has never had and never gets a timer (no
\* callback of it is ever counted).
C5_LoadErrorNoPolling ==
  \A c \in Calls :
    /\ scriptEvt[c] = "error"
       => /\ promise[c].state = "rejected"
          /\ promise[c].kind = "ResourceLoadFailed"
          /\ NoTimerEver(c)
          /\ ~libSeen[c] /\ ~constructed[c]
          /\ (c = watch => ticks = 0)
    /\ promise[c].kind = "ResourceLoadFailed" => scriptEvt[c] = "error"

C5_Witness ==
  \E c, d \in Calls :
    /\ scriptEvt[c] = "error" /\ promise[c].kind = "ResourceLoadFailed"
    /\ c = watch /\ d # c /\ pc[d] = "Resolved"

\* C6: when the construction throws after Phase A found the library, the
\* Future is rejected with InitializationFailed carrying exactly the thrown
\* message, the Phase B timer is never created and no timer stays active.
C6_InitFailure ==
  \A c \in Calls :
    /\ thrown[c] # ""
       => /\ libSeen[c]
          /\ promise[c].state = "rejected"
          /\ promise[c].kind = "InitializationFailed"
          /\ promise[c].msg = thrown[c]
          /\ onLoaded[c] = "none"
          /\ checkInterval[c] = "cleared"
          /\ (c = watch => bMiss = 0)
    /\ promise[c].kind = "InitializationFailed" => thrown[c] \in Msgs

C6_Witness ==
  \E c, d \in Calls :
    /\ thrown[c] = "boom" /\ promise[c].msg = "boom"
    /\ thrown[d] = "no webgl" /\ promise[d].msg = "no webgl"

\* C7: a call whose mount id names no element is rejected with MountNotFound
\* and never creates a script element or a timer; the page is as it was.
C7_MountNotFound ==
  /\ [](\A c \in Calls :
          (Called(c) /\ args[c].containerId \notin Mounts)
          => /\ promise[c].state = "rejected"
             /\ promise[c].kind = "MountNotFound"
             /\ scriptEvt[c] = "none"
             /\ ~OwnsElement(c)
             /\ NoTimerEver(c))
  /\ [][\A c \in Calls :
          (~Called(c) /\ Called(c)' /\ args'[c].containerId \notin Mounts)
          => head' = head /\ mount' = mount]_vars

C7_Witness ==
  \E c, d \in Calls :
    /\ args[c].containerId = "ghost" /\ promise[c].kind = "MountNotFound"
    /\ args[c].ggbFileName = GgbName
    /\ OwnsElement(d)

\* the file name is empty or its last four characters are not ".ggb"
BadName(f) ==
  \/ Len(f) = 0
  \/ Len(f) < 4
  \/ <<f[Len(f) - 3], f[Len(f) - 2], f[Len(f) - 1], f[Len(f)]>>
       # <<".", "g", "g", "b">>

\* C8: a call on an existing mount point with an empty file name or one not
\* ending in ".ggb" is rejected with InvalidResourceName and never creates a
\* script element, a load/error callback or a timer.
C8_InvalidResourceName ==
  /\ [](\A c \in Calls :
          (Called(c) /\ args[c].containerId \in Mounts /\ BadName(args[c].ggbFileName))
          => /\ promise[c].state = "rejected"
             /\ promise[c].kind = "InvalidResourceName"
             /\ scriptEvt[c] = "none"
             /\ ~OwnsElement(c)
             /\ NoTimerEver(c))
  /\ [][\A c \in Calls :
          (/\ ~Called(c) /\ Called(c)'
           /\ args'[c].containerId \in Mounts
           /\ BadName(args'[c].ggbFileName))
          => head' = head]_vars

C8_Witness ==
  \E c, d \in Calls :
    /\ args[c].containerId \in Mounts /\ args[c].ggbFileName = GgbTxtName
    /\ promise[c].kind = "InvalidResourceName"
    /\ args[d].ggbFileName = EmptyName /\ promise[d].kind = "InvalidResourceName"

\* C9 as stated: every step in which a call on an existing mount point invokes
\* reject leaves the diagnostic panel of that call in the mount point.
C9_PanelOnEveryFailure ==
  [][\A c \in Calls :
       (rejectCalls'[c] # rejectCalls[c] /\ args'[c].containerId \in Mounts)
       => mount'[args'[c].containerId] = [kind |-> "panel", by |-> c]]_vars

\* C10: no step clears a polling timer or settles the Future of a call whose
\* active timer is waiting for a global that is absent: Phase A stays active
\* and pending while window.GGBApplet is undefined, Phase B while the instance
\* under the readiness key is undefined.
C10_NoTimeout ==
  [][\A c \in Calls :
       /\ (checkInterval[c] = "active" /\ ~GGBApplet)
          => /\ checkInterval'[c] = "active"
             /\ promise'[c].state = "pending"
             /\ pc'[c] = "AwaitingLibraryGlobal"
       /\ (onLoaded[c] = "active" /\ registry[ReadinessKey(c)] = 0)
          => /\ onLoaded'[c] = "active"
             /\ promise'[c].state = "pending"
             /\ pc'[c] = "AwaitingInstance"]_vars

C10_Witness ==
  /\ onLoaded[watch] = "active"
  /\ registry[ReadinessKey(watch)] = 0
  /\ aMiss >= 1 /\ bMiss >= 2
  /\ ticks = MaxTicks
  /\ promise[watch].state = "pending"

\* the step is call d's loadGeoGebra getting past validation with call c's key
Supersedes(d, c) ==
  /\ d # c
  /\ ~Called(d) /\ Called(d)'
  /\ scriptEvt'[d] = "pending"
  /\ args'[d].is3D = args[c].is3D

\* C11: a step that removes call c's script element from the page is a later
\* call's loadGeoGebra with the same key, and it leaves c's Future, c's
\* resolve / reject counts, c's timers and c's outstanding script event as
\* they were; a superseded call can therefore still resolve afterwards.
C11_SupersedeLeavesCallRunning ==
  [][\A c \in Calls :
       (OwnsElement(c) /\ ~OwnsElement(c)')
       => /\ \E d \in Calls : Supersedes(d, c)
          /\ promise'[c] = promise[c]
          /\ resolveCalls'[c] = resolveCalls[c]
          /\ rejectCalls'[c] = rejectCalls[c]
          /\ checkInterval'[c] = checkInterval[c]
          /\ onLoaded'[c] = onLoaded[c]
          /\ scriptEvt'[c] = scriptEvt[c]
          /\ pc'[c] = pc[c]]_vars

\* both Futures resolved, the superseded one with the instance of the later
\* call's applet, so after it was superseded
C11_Witness ==
  \E c, d \in Calls :
    /\ c < d /\ args[c].is3D = args[d].is3D
    /\ ~OwnsElement(c) /\ OwnsElement(d)
    /\ promise[c].state = "fulfilled" /\ promise[c].inst = d
    /\ promise[d].state = "fulfilled"

\* the step is one of call d: its loadGeoGebra, its load / error callback or
\* one of its timer callbacks that did something
Moves(d) ==
  \/ pc'[d] # pc[d]
  \/ scriptEvt'[d] # scriptEvt[d]
  \/ checkInterval'[d] # checkInterval[d]
  \/ onLoaded'[d] # onLoaded[d]
  \/ resolveCalls'[d] # resolveCalls[d]
  \/ rejectCalls'[d] # rejectCalls[d]

\* calls c and d, both made once the step is done, with different keys
OtherKey(c, d) ==
  /\ c # d
  /\ Called(c) /\ Called(d)'
  /\ scriptEvt[c] # "none" /\ scriptEvt'[d] # "none"
  /\ args[c].is3D # args'[d].is3D

\* a step leaves call c's element, timers, Future and counts alone
Untouched(c) ==
  /\ OwnsElement(c) => OwnsElement(c)'
  /\ checkInterval'[c] = checkInterval[c]
  /\ onLoaded'[c] = onLoaded[c]
  /\ promise'[c] = promise[c]
  /\ resolveCalls'[c] = resolveCalls[c]
  /\ rejectCalls'[c] = rejectCalls[c]
  /\ scriptEvt'[c] = scriptEvt[c]
  /\ pc'[c] = pc[c]

\* C12 as stated: a step of one call leaves alone the other call's element,
\* timers and Future and everything the other call wrote: apart from the
\* registry the two share no mutable state.
C12_NoSharedState ==
  [][\A c, d \in Calls :
       (OtherKey(c, d) /\ Moves(d))
       => /\ Untouched(c)
          /\ mount[args[c].containerId].by = c => mount' = mount]_vars

\* C12 amended: a step of one call leaves alone the other call's element,
\* timers and Future, and no step of a call writes the registry; what the two
\* share besides the registry is the page: document.head, where each appends
\* its own element, and the mount point's contents when both are given the
\* same containerId.
C12_Independent ==
  [][/\ \A c, d \in Calls : (OtherKey(c, d) /\ Moves(d)) => Untouched(c)
     /\ \A d \in Calls : Moves(d) => registry' = registry]_vars

C12_Witness ==
  \E c, d \in Calls :
    /\ args[c].is3D # args[d].is3D
    /\ OwnsElement(c) /\ OwnsElement(d)
    /\ promise[c].state = "fulfilled" /\ promise[d].state = "fulfilled"
    /\ mount[args[c].containerId].by = d

\* the base path section 6 of the specification gives for a window.location
ExpectedBase(loc) ==
  IF loc.hostname \in {"localhost", "127.0.0.1"}
  THEN <<"http://">> \o <<loc.hostname>> \o <<":5500/assets/ggb/">>
  ELSE IF loc.protocol = "file:" THEN <<"./assets/ggb/">> ELSE <<"/assets/ggb/">>

\* C13: under every window.location the filename entry of the params object
\* of a call that got past validation is basePath followed by the file name,
\* with basePath "http://{host}:5500/assets/ggb/" on a dev host (whatever the
\* protocol), else "./assets/ggb/" under file:, else "/assets/ggb/".
C13_SourceUrl ==
  \A c \in Calls :
    /\ scriptEvt[c] # "none"
       => /\ params[c].filename = ExpectedBase(location) \o args[c].ggbFileName
          /\ params[c].appName = (IF args[c].is3D THEN "3d" ELSE "classic")
    /\ scriptEvt[c] = "none" => params[c] = NoParams

\* a dev host under the file protocol: the dev-host branch wins
C13_Witness ==
  \E c \in Calls :
    /\ location = [hostname |-> "localhost", protocol |-> "file:"]
    /\ constructed[c]
    /\ params[c].filename
         = <<"http://", "localhost", ":5500/assets/ggb/", "d", ".", "g", "g", "b">>

Forward ==
  {<<"idle", "AwaitingResource">>, <<"idle", "Rejected">>,
   <<"AwaitingResource", "AwaitingLibraryGlobal">>, <<"AwaitingResource", "Rejected">>,
   <<"AwaitingLibraryGlobal", "AwaitingInstance">>, <<"AwaitingLibraryGlobal", "Rejected">>,
   <<"AwaitingInstance", "Resolved">>, <<"AwaitingInstance", "Rejected">>}

\* the phase of a call read off its script event, timers and Future
PhaseIs(c, ph) ==
  CASE ph = "AwaitingResource" -> scriptEvt[c] = "pending"
    [] ph = "AwaitingLibraryGlobal" -> checkInterval[c] = "active"
    [] ph = "AwaitingInstance" -> onLoaded[c] = "active"
    [] ph = "Resolved" -> promise[c].state = "fulfilled"
    [] ph = "Rejected" -> promise[c].state = "rejected"
    [] OTHER -> scriptEvt[c] = "none" /\ promise[c].state = "pending"

Phases ==
  {"idle", "AwaitingResource", "AwaitingLibraryGlobal", "AwaitingInstance",
   "Resolved", "Rejected"}

\* C14: a call is in exactly one phase, it changes phase only forwards
\* (AwaitingResource -> AwaitingLibraryGlobal -> AwaitingInstance -> Resolved,
\* or from a phase before Resolved to Rejected), Resolved and Rejected are
\* never left, and a rejected call creates no further script element, script
\* event or timer.
C14_OneDirection ==
  /\ [](\A c \in Calls : \A ph \in Phases : PhaseIs(c, ph) <=> pc[c] = ph)
  /\ [][\A c \in Calls :
          /\ pc'[c] # pc[c] => <<pc[c], pc'[c]>> \in Forward
          /\ promise[c].state = "rejected"
             => /\ promise'[c] = promise[c]
                /\ rejectCalls'[c] = rejectCalls[c]
                /\ scriptEvt'[c] = scriptEvt[c]
                /\ ~TimerActive(c)'
                /\ OwnsElement(c)' => OwnsElement(c)]_vars

C14_Witness ==
  \E c, d \in Calls :
    /\ pc[c] = "Resolved" /\ checkInterval[c] = "cleared" /\ onLoaded[c] = "cleared"
    /\ pc[d] = "Rejected" /\ thrown[d] # "" /\ OwnsElement(d)

\* C15: a call whose mount id names no element and whose file name is empty
\* or does not end in ".ggb" is rejected with MountNotFound, not with
\* InvalidResourceName: the mount point is checked first.
C15_MountCheckedFirst ==
  \A c \in Calls :
    /\ (Called(c) /\ args[c].containerId \notin Mounts /\ BadName(args[c].ggbFileName))
       => promise[c].state = "rejected" /\ promise[c].kind = "MountNotFound"
    /\ promise[c].kind = "InvalidResourceName"
       => args[c].containerId \in Mounts /\ BadName(args[c].ggbFileName)

C15_Witness ==
  \E c, d \in Calls :
    /\ args[c].containerId = "ghost" /\ args[c].ggbFileName = GgbTxtName
    /\ promise[c].kind = "MountNotFound"
    /\ args[d].containerId = "ghost" /\ args[d].ggbFileName = EmptyName
    /\ promise[d].kind = "MountNotFound"

\* C16: a call never has both polling timers active, the Phase A timer is
\* cleared before the Phase B timer exists, and a call whose Future is settled
\* has no active timer.
C16_OneTimer ==
  \A c \in Calls :
    /\ ~(checkInterval[c] = "active" /\ onLoaded[c] = "active")
    /\ onLoaded[c] # "none" => checkInterval[c] = "cleared"
    /\ constructed[c] => checkInterval[c] = "cleared"
    /\ Settled(c) => ~TimerActive(c)

C16_Witness ==
  \E c, d \in Calls :
    /\ checkInterval[c] = "cleared" /\ onLoaded[c] = "active" /\ ~Settled(c)
    /\ checkInterval[d] = "cleared" /\ onLoaded[d] = "cleared" /\ Settled(d)

\* the step is call c's loadGeoGebra failing validation
FailsValidation(c) ==
  /\ ~Called(c) /\ Called(c)'
  /\ promise'[c].kind \in {"MountNotFound", "InvalidResourceName"}

\* C17: a call that fails validation changes nothing in the page: the mount
\* points keep their contents and document.head keeps every script element,
\* the one of an earlier call with the same key included.
C17_ValidationLeavesPage ==
  /\ [][\A c \in Calls :
          FailsValidation(c)
          => /\ mount' = mount
             /\ head' = head
             /\ \A d \in Calls : OwnsElement(d) => OwnsElement(d)']_vars
  /\ [](\A c \in Calls :
          promise[c].kind \in {"MountNotFound", "InvalidResourceName"}
          => \A m \in Mounts : mount[m] # [kind |-> "loading", by |-> c])

\* an invalid call after an in-flight call with the same key
C17_Witness ==
  \E c, d \in Calls :
    /\ c < d /\ args[c].is3D = args[d].is3D
    /\ promise[d].kind = "InvalidResourceName"
    /\ args[d].containerId = args[c].containerId
    /\ OwnsElement(c) /\ scriptEvt[c] = "pending"
    /\ mount[args[c].containerId] = [kind |-> "loading", by |-> c]

\* C18 as stated: a Future is resolved only with an instance written under
\* the readiness key after the call constructed its applet, never with one
\* that was already there when the construction returned.
C18_NoStaleInstance ==
  \A c \in Calls : promise[c].state = "fulfilled" => fresh[c]

\* the step writes an iframe into mount point m
WritesIframe(m) == mount'[m] # mount[m] /\ mount'[m].kind = "iframe"

\* C19: embedGeoGebra runs no protocol: a step that puts an iframe into a
\* mount point changes nothing else (no script element, script event, timer,
\* Future or registry entry, no other mount point), the iframe is the one
\* built from a non-empty material id, a width and a height, and no iframe
\* with an empty material id is ever written.
C19_EmbedOnlyWritesMount ==
  /\ [](\A m \in Mounts :
          mount[m].kind = "iframe"
          => /\ mount[m].material \in MaterialIds \ {""}
             /\ <<mount[m].width, mount[m].height>> \in Sizes
             /\ mount[m] = Iframe(mount[m].material,
                                  <<mount[m].width, mount[m].height>>,
                                  mount[m].border))
  /\ [][\A m \in Mounts :
          WritesIframe(m)
          => /\ \A n \in Mounts \ {m} : mount'[n] = mount[n]
             /\ UNCHANGED <<args, params, location, fresh, pc, promise,
                            resolveCalls, rejectCalls, scriptEvt, checkInterval,
                            onLoaded, libSeen, constructed, thrown, head,
                            GGBApplet, registry, watch, counters>>]_vars

\* an iframe embedded while a call of loadGeoGebra is polling
C19_Witness ==
  \E m \in Mounts, c \in Calls :
    /\ mount[m] = Iframe("m1", <<400, 300>>, FALSE)
    /\ args[c].containerId = m
    /\ OwnsElement(c) /\ onLoaded[c] = "active"
====
